---------------------------- MODULE Spec2Model ----------------------------
(***************************************************************************)
(* Dynamic (lazy) segment tree of gogagum/lazy-segment-tree.               *)
(*                                                                         *)
(* The tree is a value: a node is a record                                 *)
(*   ptr          <<>> for a leaf (ptr == nullptr), <<left, right>> else   *)
(*   buffer_      <<v>> while a value is constructed in the raw buffer,    *)
(*                <<>> after std::destroy_at                               *)
(*   updateValue_ <<>> for std::nullopt, <<a>> for a pending argument      *)
(*                (Node<T, std::optional<UpdateT>, Allocator>)             *)
(*   toUpdate_    the pending flag of Node<T, bool, Allocator>             *)
(* A node of one variation never touches the other variation's slot.       *)
(***************************************************************************)
EXTENDS Integers, Sequences, FiniteSets, TLC

VARIABLES
    cfg,        \* configuration fixed at construction: update/combiner kind, build
    begin_,     \* DynamicSegmentTree::begin_
    end_,       \* DynamicSegmentTree::end_
    rootNode_,  \* DynamicSegmentTree::rootNode_
    outcome,    \* how the last call ended: "ok", "out_of_range", "abort", "overflow"
    call,       \* the last call made on the tree and its arguments
    ret,        \* what the last call returned (or the message of what it threw)
    stats,      \* pair allocations / deallocations made by the last call
    ref,        \* per-key reference: one value per key, updated pointwise
    other       \* a second tree of the program: a copy, or the left side of
                \* an assignment (begin_ = end_ while it does not exist)

vars == <<cfg, begin_, end_, rootNode_, outcome, call, ret, stats, ref, other>>

----------------------------------------------------------------------------
(* Bounds of the model.                                                    *)

\* Largest value a key may hold under the binary update (values stay in
\* 0..MaxVal); updates that would leave this range are not made.
MaxVal == 2
\* Depth of recursive calls the stack holds; a deeper walk is a stack overflow.
MaxDepth == 6
\* How far outside [begin_, end_) the arguments of the wide calls may lie.
Margin == 1

\* Key ranges the tree is constructed with: a span of four keys (both
\* children of the root can be internal) and spans of three keys, one of
\* them over negative keys.
TreeRanges == {<<0, 4>>, <<-3, 0>>}
SmallRanges == {<<0, 3>>, <<-3, 0>>}
\* Fill values given to the constructor.
FillVals == {0}
\* Values given to set.
SetVals == {1}
\* Arguments given to the binary update: an increment and a decrement.
UpdArgs == {1, -1}

----------------------------------------------------------------------------
(* BaseNode / Node                                                         *)

\* A freshly constructed node holding a value: ptr{nullptr}, no pending update.
NodeCtor(value) ==
    [ptr |-> <<>>, buffer_ |-> <<value>>, updateValue_ |-> <<>>, toUpdate_ |-> FALSE]

isLeaf(n) == n.ptr = <<>>

getLeft(n) == n.ptr[1]

getRight(n) == n.ptr[2]

getValue(n) == n.buffer_[1]

\* A clearChildren that deallocates the pair of the node itself and never
\* descends into the children.
clearChildrenFreesOwnPair(n) == 1

\* Number of pair deallocations clearChildren makes on an internal node.
RECURSIVE clearChildrenFrees(_)
clearChildrenFrees(n) ==
    (IF ~isLeaf(getLeft(n)) THEN clearChildrenFrees(getLeft(n)) ELSE 0)
    + (IF ~isLeaf(getRight(n)) THEN clearChildrenFrees(getRight(n)) ELSE 0)
    + 1

\* clearChildren: both subtrees destroyed, the pair deallocated, ptr = nullptr.
clearChildren(n) == [n EXCEPT !.ptr = <<>>]

\* A setOrConstructValue that assigns leaves only and keeps an internal node
\* as it is.
setOrConstructValueKeepingChildren(n, val) ==
    IF isLeaf(n) THEN [n EXCEPT !.buffer_ = <<val>>] ELSE n

\* BaseNode::setOrConstructValue: the base part of setValue.  It assigns the
\* value of a leaf, or clears the children and constructs the value; it knows
\* nothing of the derived node's pending slot.
setOrConstructValue(n, val) ==
    IF isLeaf(n)
    THEN [n EXCEPT !.buffer_ = <<val>>]
    ELSE [clearChildren(n) EXCEPT !.buffer_ = <<val>>]

setOrConstructValueFrees(n) == IF isLeaf(n) THEN 0 ELSE clearChildrenFrees(n)

\* Node<T, std::optional<UpdateT>, Allocator>::setValue
setValueOpt(n, val) ==
    [setOrConstructValue(n, val) EXCEPT !.updateValue_ = <<>>]

\* setValue as the tree calls it on a node of the configured variation.
\* Node<T, bool, Allocator> declares no setValue of its own: the call reaches
\* the base class and toUpdate_ is left as it was.
setValue(upd, n, val) ==
    IF upd = "binary" THEN setValueOpt(n, val) ELSE setOrConstructValue(n, val)

\* BaseNode::initChildrenSiftingValue (no failure): one pair is allocated, the
\* value is copied into the left child and moved into the right one, then
\* destroyed in this node.  The node's own pending slot is not touched.
initChildrenSiftingValue(n) ==
    [n EXCEPT !.ptr = <<NodeCtor(getValue(n)), NodeCtor(getValue(n))>>,
              !.buffer_ = <<>>]

\* A default-constructed node: ptr{nullptr}, no value constructed, no pending
\* update.
NodeDefault ==
    [ptr |-> <<>>, buffer_ |-> <<>>, updateValue_ |-> <<>>, toUpdate_ |-> FALSE]

\* BaseNode::initEmptyChildren: one pair is allocated, both nodes
\* default-constructed.
initEmptyChildren(n) == [n EXCEPT !.ptr = <<NodeDefault, NodeDefault>>]

\* What a copy leaves: the destination node and the pairs it allocated and
\* freed.
Copied(node, allocs, frees) == [node |-> node, allocs |-> allocs, frees |-> frees]

RECURSIVE copyToNewlyCreated(_, _)
RECURSIVE copyChildrenToNewlyCreated(_, _)
RECURSIVE copySubtree(_, _)

\* A copy of the children that takes the source's pair itself.
copyChildrenSharing(src, dest) ==
    Copied([dest EXCEPT !.ptr = src.ptr], 0, 0)

\* BaseNode::copyChildrenToNewlyCreated.  Derived_::copyToNewlyCreated is the
\* base's: Node declares none, and the children's pending slots stay as
\* default-constructed.
copyChildrenToNewlyCreated(src, dest) ==
    LET d == initEmptyChildren(dest)
        l == copyToNewlyCreated(getLeft(src), getLeft(d))
        r == copyToNewlyCreated(getRight(src), getRight(d))
    IN  Copied([d EXCEPT !.ptr = <<l.node, r.node>>],
               1 + l.allocs + r.allocs, 0)

\* BaseNode::copyToNewlyCreated
copyToNewlyCreated(src, dest) ==
    IF isLeaf(src)
    THEN Copied([dest EXCEPT !.buffer_ = <<getValue(src)>>], 0, 0)
    ELSE copyChildrenToNewlyCreated(src, dest)

\* BaseNode::copyChildren
copyChildren(src, dest) ==
    LET l == copySubtree(getLeft(src), getLeft(dest))
        r == copySubtree(getRight(src), getRight(dest))
    IN  Copied([dest EXCEPT !.ptr = <<l.node, r.node>>],
               l.allocs + r.allocs, l.frees + r.frees)

\* BaseNode::copySubtree: values and children are copied into dest; dest's own
\* pending slot is not touched.
copySubtree(src, dest) ==
    IF isLeaf(dest)
    THEN IF isLeaf(src)
         THEN Copied([dest EXCEPT !.buffer_ = <<getValue(src)>>], 0, 0)
         ELSE copyChildrenToNewlyCreated(src, [dest EXCEPT !.buffer_ = <<>>])
    ELSE IF isLeaf(src)
         THEN Copied([clearChildren(dest) EXCEPT !.buffer_ = <<getValue(src)>>],
                     0, clearChildrenFrees(dest))
         ELSE copyChildren(src, dest)

\* The pending slot of a node of either variation, as the copying members
\* copy it (updateValue_ = other.updateValue_, toUpdate_ = other.toUpdate_).
withSlotOf(n, node) ==
    [n EXCEPT !.updateValue_ = node.updateValue_, !.toUpdate_ = node.toUpdate_]

\* Node(const Node& node, Allocator_& allocator): the base is copied into the
\* newly created node, then the pending slot of this node is copied.
NodeCopy(node) ==
    LET b == copyToNewlyCreated(node, NodeDefault)
    IN  Copied(withSlotOf(b.node, node), b.allocs, b.frees)

\* Node::assign: Base_::assign, then the pending slot of this node.
assign(dest, node) ==
    LET b == copySubtree(node, dest)
    IN  Copied(withSlotOf(b.node, node), b.allocs, b.frees)

\* Node(Node&&) = default: the children, the value and the pending slot pass
\* to the new node.
NodeMove(node) == node

\* Node::operator=(Node&&): Base_::operator= takes the children and the
\* value, then the pending slot is copied.
moveAssign(dest, node) ==
    withSlotOf([dest EXCEPT !.ptr = node.ptr, !.buffer_ = node.buffer_], node)

\* How assign and operator=(Node&&) can end.  Those of Node<T, bool, Allocator>
\* flow off the end of a function returning This_& (no return statement):
\* the behaviour is undefined, and the call either goes on as if it had
\* returned or does not.
assignEnds(upd) == IF upd = "binary" THEN {"ok"} ELSE {"ok", "undefined"}

\* The update operators of the curried trees: std::plus and impl::Negate.
UpdateOpPlus(x, a) == x + a

Negate(x) == 0 - x

\* Node<T, std::optional<UpdateT>, Allocator>::update
RECURSIVE updateOpt(_, _)

\* update that overwrites the pending argument of an internal node without
\* pushing the old one down first.
updateOptOverwriting(n, updateVal) ==
    IF ~isLeaf(n)
    THEN [n EXCEPT !.updateValue_ = <<updateVal>>]
    ELSE setOrConstructValue(n, UpdateOpPlus(getValue(n), updateVal))

updateOpt(n, updateVal) ==
    IF ~isLeaf(n)
    THEN LET pushed ==
                 IF n.updateValue_ # <<>>
                 THEN [n EXCEPT !.ptr = <<updateOpt(getLeft(n), n.updateValue_[1]),
                                          updateOpt(getRight(n), n.updateValue_[1])>>]
                 ELSE n
         IN  [pushed EXCEPT !.updateValue_ = <<updateVal>>]
    ELSE setOrConstructValue(n, UpdateOpPlus(getValue(n), updateVal))

\* siftOptUpdate that pushes the pending argument down and keeps it in the slot.
siftOptUpdateOptKeeping(n) ==
    IF n.updateValue_ # <<>>
    THEN [n EXCEPT !.ptr = <<updateOpt(getLeft(n), n.updateValue_[1]),
                             updateOpt(getRight(n), n.updateValue_[1])>>]
    ELSE n

\* Node<T, std::optional<UpdateT>, Allocator>::siftOptUpdate
siftOptUpdateOpt(n) ==
    IF n.updateValue_ # <<>>
    THEN [n EXCEPT !.ptr = <<updateOpt(getLeft(n), n.updateValue_[1]),
                             updateOpt(getRight(n), n.updateValue_[1])>>,
                   !.updateValue_ = <<>>]
    ELSE n

\* Node<T, bool, Allocator>::update
RECURSIVE updateBool(_)
updateBool(n) ==
    IF ~isLeaf(n)
    THEN LET pushed ==
                 IF n.toUpdate_
                 THEN [n EXCEPT !.ptr = <<updateBool(getLeft(n)),
                                          updateBool(getRight(n))>>]
                 ELSE n
         IN  [pushed EXCEPT !.toUpdate_ = TRUE]
    ELSE setOrConstructValue(n, Negate(getValue(n)))

\* siftOptUpdate that updates both children and leaves toUpdate_ set.
siftOptUpdateBoolKeeping(n) ==
    IF n.toUpdate_
    THEN [n EXCEPT !.ptr = <<updateBool(getLeft(n)), updateBool(getRight(n))>>]
    ELSE n

\* Node<T, bool, Allocator>::siftOptUpdate
siftOptUpdateBool(n) ==
    IF n.toUpdate_
    THEN [n EXCEPT !.ptr = <<updateBool(getLeft(n)), updateBool(getRight(n))>>,
                   !.toUpdate_ = FALSE]
    ELSE n

\* Whether the node holds a pending update in the configured variation.
hasPending(upd, n) ==
    IF upd = "binary" THEN n.updateValue_ # <<>> ELSE n.toUpdate_

\* optionalSiftNodeUpdate_: sift of the configured variation.
optionalSiftNodeUpdate_(upd, n) ==
    IF upd = "binary" THEN siftOptUpdateOpt(n) ELSE siftOptUpdateBool(n)

\* Node::update of the configured variation (arg is ignored by the nullary one).
nodeUpdate(upd, n, arg) ==
    IF upd = "binary" THEN updateOpt(n, arg) ELSE updateBool(n)

\* A midpoint that rounds down: the floor of (currBegin + currEnd) / 2.
MidFloor(currBegin, currEnd) == (currBegin + currEnd) \div 2

\* The split point: (currBegin + currEnd) / 2 in C++ integer arithmetic,
\* which truncates toward zero.
Mid(currBegin, currEnd) ==
    LET s == currBegin + currEnd
    IN  IF s >= 0 THEN s \div 2 ELSE 0 - ((0 - s) \div 2)


----------------------------------------------------------------------------
(* Range-get variation: the configured combiner and initializer.           *)

Min(a, b) == IF a <= b THEN a ELSE b

Max(a, b) == IF a >= b THEN a ELSE b

\* The segment initializer functor given at construction:
\*   "sum": value times the length of the span, "min": the value itself,
\*   "cat": the values of the span in key order (a non-commutative monoid).
SegGetInit(comb, val, lb, le) ==
    CASE comb = "sum" -> val * (le - lb)
      [] comb = "min" -> val
      [] OTHER        -> [i \in 1..(le - lb) |-> val]

\* The segment combiner functor given at construction.
SegGetComb(comb, leftValue, rightValue, leftBegin, separation, rightEnd) ==
    CASE comb = "sum" -> leftValue + rightValue
      [] comb = "min" -> Min(leftValue, rightValue)
      [] OTHER        -> leftValue \o rightValue

\* DynamicSegmentTreeRangeGetInitVariationBase::initGet_
initGet_(comb, lb, le, val) == SegGetInit(comb, val, lb, le)

\* combineGet_ that hands the two aggregates to the combiner in the wrong order.
combineGetSwapped(comb, leftValue, rightValue, leftBegin, separation, rightEnd) ==
    SegGetComb(comb, rightValue, leftValue, leftBegin, separation, rightEnd)

\* DynamicSegmentTreeRangeGetCombineVariationBase::combineGet_
combineGet_(comb, leftValue, rightValue, leftBegin, separation, rightEnd) ==
    SegGetComb(comb, leftValue, rightValue, leftBegin, separation, rightEnd)

\* ValueT{} converted to GetValueT.
DefaultGetValue(comb) == IF comb \in {"sum", "min"} THEN 0 ELSE <<>>

----------------------------------------------------------------------------
(* Recursion core.  A walk returns the rewritten node, the pairs it        *)
(* allocated and deallocated, and how it ended: "ok", "abort" (an assert   *)
(* failed in a build with assertions) or "overflow" (the recursion went    *)
(* deeper than the stack).                                                 *)

Walked(node, allocs, frees, st) ==
    [node |-> node, allocs |-> allocs, frees |-> frees, st |-> st]

\* The three asserts at the head of setImpl_.
setImplAsserts(begin, end, currBegin, currEnd) ==
    currBegin < end /\ currEnd > begin /\ begin < end

\* DynamicSegmentTree::setImpl_(..., const ValueT&)
RECURSIVE setImpl_(_, _, _, _, _, _, _, _)

\* setImpl_ that decides the descent to the right by currEnd >= begin + 1
\* (the test of the first revision's _setImpl) instead of mid < end.
setImplRightByBegin(c, begin, end, currBegin, currEnd, currNode, toUpdate, depth) ==
    IF depth > MaxDepth
    THEN Walked(currNode, 0, 0, "overflow")
    ELSE IF ~c.ndebug /\ ~setImplAsserts(begin, end, currBegin, currEnd)
    THEN Walked(currNode, 0, 0, "abort")
    ELSE IF end >= currEnd /\ begin <= currBegin
    THEN Walked(setValue(c.upd, currNode, toUpdate), 0,
                setOrConstructValueFrees(currNode), "ok")
    ELSE LET inited == IF isLeaf(currNode)
                       THEN initChildrenSiftingValue(currNode) ELSE currNode
             a0     == IF isLeaf(currNode) THEN 1 ELSE 0
             mid    == Mid(currBegin, currEnd)
             sifted == optionalSiftNodeUpdate_(c.upd, inited)
             l == IF mid > begin
                  THEN setImpl_(c, begin, end, currBegin, mid, getLeft(sifted),
                                toUpdate, depth + 1)
                  ELSE Walked(getLeft(sifted), 0, 0, "ok")
             r == IF l.st = "ok" /\ currEnd >= begin + 1
                  THEN setImpl_(c, begin, end, mid, currEnd, getRight(sifted),
                                toUpdate, depth + 1)
                  ELSE Walked(getRight(sifted), 0, 0, l.st)
         IN  Walked([sifted EXCEPT !.ptr = <<l.node, r.node>>],
                    a0 + l.allocs + r.allocs, l.frees + r.frees, r.st)

setImpl_(c, begin, end, currBegin, currEnd, currNode, toUpdate, depth) ==
    IF depth > MaxDepth
    THEN Walked(currNode, 0, 0, "overflow")
    ELSE IF ~c.ndebug /\ ~setImplAsserts(begin, end, currBegin, currEnd)
    THEN Walked(currNode, 0, 0, "abort")
    ELSE IF end >= currEnd /\ begin <= currBegin
    THEN Walked(setValue(c.upd, currNode, toUpdate), 0,
                setOrConstructValueFrees(currNode), "ok")
    ELSE LET inited == IF isLeaf(currNode)
                       THEN initChildrenSiftingValue(currNode) ELSE currNode
             a0     == IF isLeaf(currNode) THEN 1 ELSE 0
             mid    == Mid(currBegin, currEnd)
             sifted == optionalSiftNodeUpdate_(c.upd, inited)
             l == IF mid > begin
                  THEN setImpl_(c, begin, end, currBegin, mid, getLeft(sifted),
                                toUpdate, depth + 1)
                  ELSE Walked(getLeft(sifted), 0, 0, "ok")
             r == IF l.st = "ok" /\ mid < end
                  THEN setImpl_(c, begin, end, mid, currEnd, getRight(sifted),
                                toUpdate, depth + 1)
                  ELSE Walked(getRight(sifted), 0, 0, l.st)
         IN  Walked([sifted EXCEPT !.ptr = <<l.node, r.node>>],
                    a0 + l.allocs + r.allocs, l.frees + r.frees, r.st)

\* DynamicSegmentTree::setImpl_(..., ValueT&&): the value is moved into the
\* only side visited, or copied to the left and moved to the right.
RECURSIVE setImplMove_(_, _, _, _, _, _, _, _)
setImplMove_(c, begin, end, currBegin, currEnd, currNode, toUpdate, depth) ==
    IF depth > MaxDepth
    THEN Walked(currNode, 0, 0, "overflow")
    ELSE IF ~c.ndebug /\ ~setImplAsserts(begin, end, currBegin, currEnd)
    THEN Walked(currNode, 0, 0, "abort")
    ELSE IF end >= currEnd /\ begin <= currBegin
    THEN Walked(setValue(c.upd, currNode, toUpdate), 0,
                setOrConstructValueFrees(currNode), "ok")
    ELSE LET inited == IF isLeaf(currNode)
                       THEN initChildrenSiftingValue(currNode) ELSE currNode
             a0     == IF isLeaf(currNode) THEN 1 ELSE 0
             mid    == Mid(currBegin, currEnd)
             sifted == optionalSiftNodeUpdate_(c.upd, inited)
         IN  IF mid >= end
             THEN LET l == setImplMove_(c, begin, end, currBegin, mid,
                                        getLeft(sifted), toUpdate, depth + 1)
                  IN  Walked([sifted EXCEPT !.ptr = <<l.node, getRight(sifted)>>],
                             a0 + l.allocs, l.frees, l.st)
             ELSE IF mid <= begin
             THEN LET r == setImplMove_(c, begin, end, mid, currEnd,
                                        getRight(sifted), toUpdate, depth + 1)
                  IN  Walked([sifted EXCEPT !.ptr = <<getLeft(sifted), r.node>>],
                             a0 + r.allocs, r.frees, r.st)
             ELSE LET l == setImpl_(c, begin, end, currBegin, mid,
                                    getLeft(sifted), toUpdate, depth + 1)
                      r == IF l.st = "ok"
                           THEN setImplMove_(c, begin, end, mid, currEnd,
                                             getRight(sifted), toUpdate, depth + 1)
                           ELSE Walked(getRight(sifted), 0, 0, l.st)
                  IN  Walked([sifted EXCEPT !.ptr = <<l.node, r.node>>],
                             a0 + l.allocs + r.allocs, l.frees + r.frees, r.st)

\* Node::siftDown of the first revision of the tree, as _updateImpl uses it:
\* a leaf gets its children, then the pending update is pushed down.
siftDown(upd, n) ==
    optionalSiftNodeUpdate_(upd, IF isLeaf(n) THEN initChildrenSiftingValue(n) ELSE n)

\* DynamicSegmentTree::_updateImpl
RECURSIVE updateImpl_(_, _, _, _, _, _, _, _)
updateImpl_(c, begin, end, currBegin, currEnd, currNode, toUpdate, depth) ==
    IF depth > MaxDepth
    THEN Walked(currNode, 0, 0, "overflow")
    ELSE IF begin >= currEnd \/ currBegin >= end
    THEN Walked(currNode, 0, 0, "ok")
    ELSE IF end >= currEnd /\ begin <= currBegin
    THEN Walked(nodeUpdate(c.upd, currNode, toUpdate), 0, 0, "ok")
    ELSE LET m      == Mid(currBegin, currEnd)
             a0     == IF isLeaf(currNode) THEN 1 ELSE 0
             sifted == siftDown(c.upd, currNode)
             l == IF m >= currBegin + 1
                  THEN updateImpl_(c, begin, end, currBegin, m, getLeft(sifted),
                                   toUpdate, depth + 1)
                  ELSE Walked(getLeft(sifted), 0, 0, "ok")
             r == IF l.st = "ok" /\ currEnd >= m + 1
                  THEN updateImpl_(c, begin, end, m, currEnd, getRight(sifted),
                                   toUpdate, depth + 1)
                  ELSE Walked(getRight(sifted), 0, 0, l.st)
         IN  Walked([sifted EXCEPT !.ptr = <<l.node, r.node>>],
                    a0 + l.allocs + r.allocs, l.frees + r.frees, r.st)

\* DynamicSegmentTree::getImpl_: the rewritten node and the value found.
RECURSIVE getImpl_(_, _, _, _, _)
getImpl_(c, key, currBegin, currEnd, currNode) ==
    IF isLeaf(currNode)
    THEN [node |-> currNode, value |-> getValue(currNode)]
    ELSE LET sifted == optionalSiftNodeUpdate_(c.upd, currNode)
             mid    == Mid(currBegin, currEnd)
         IN  IF key >= mid
             THEN LET r == getImpl_(c, key, mid, currEnd, getRight(sifted))
                  IN  [node  |-> [sifted EXCEPT !.ptr = <<getLeft(sifted), r.node>>],
                       value |-> r.value]
             ELSE LET l == getImpl_(c, key, currBegin, mid, getLeft(sifted))
                  IN  [node  |-> [sifted EXCEPT !.ptr = <<l.node, getRight(sifted)>>],
                       value |-> l.value]

Got(node, value, allocs, st) ==
    [node |-> node, value |-> value, allocs |-> allocs, st |-> st]

\* DynamicSegmentTree::rangeGetImpl_
RECURSIVE rangeGetImpl_(_, _, _, _, _, _, _)
rangeGetImpl_(c, begin, end, currBegin, currEnd, currNode, depth) ==
    IF depth > MaxDepth
    THEN Got(currNode, DefaultGetValue(c.comb), 0, "overflow")
    ELSE IF begin > currEnd \/ currBegin > end
    THEN Got(currNode, DefaultGetValue(c.comb), 0,
             IF c.ndebug THEN "ok" ELSE "abort")
    ELSE IF end >= currEnd /\ begin <= currBegin /\ isLeaf(currNode)
    THEN Got(currNode, initGet_(c.comb, currBegin, currEnd, getValue(currNode)),
             0, "ok")
    ELSE LET inited == IF isLeaf(currNode)
                       THEN initChildrenSiftingValue(currNode) ELSE currNode
             a0     == IF isLeaf(currNode) THEN 1 ELSE 0
             sifted == optionalSiftNodeUpdate_(c.upd, inited)
             mid    == Mid(currBegin, currEnd)
         IN  IF begin >= mid
             THEN LET r == rangeGetImpl_(c, begin, end, mid, currEnd,
                                         getRight(sifted), depth + 1)
                  IN  Got([sifted EXCEPT !.ptr = <<getLeft(sifted), r.node>>],
                          r.value, a0 + r.allocs, r.st)
             ELSE IF end <= mid
             THEN LET l == rangeGetImpl_(c, begin, end, currBegin, mid,
                                         getLeft(sifted), depth + 1)
                  IN  Got([sifted EXCEPT !.ptr = <<l.node, getRight(sifted)>>],
                          l.value, a0 + l.allocs, l.st)
             ELSE LET r == rangeGetImpl_(c, begin, end, mid, currEnd,
                                         getRight(sifted), depth + 1)
                      l == IF r.st = "ok"
                           THEN rangeGetImpl_(c, begin, end, currBegin, mid,
                                              getLeft(sifted), depth + 1)
                           ELSE Got(getLeft(sifted), DefaultGetValue(c.comb), 0, r.st)
                  IN  Got([sifted EXCEPT !.ptr = <<l.node, r.node>>],
                          IF l.st = "ok"
                          THEN combineGet_(c.comb, l.value, r.value,
                                           Max(currBegin, begin), mid,
                                           Min(currEnd, end))
                          ELSE DefaultGetValue(c.comb),
                          a0 + l.allocs + r.allocs, l.st)

\* What the range-get walk does besides computing its result: an event for
\* each invocation ("call", on the span [cb, ce)), each initializer call
\* ("init", on the leaf's span) and each combiner call ("comb", with the two
\* aggregates and the three borders it receives).
Event(ev, cb, ce, lb, mid, re, l, r) ==
    [ev |-> ev, cb |-> cb, ce |-> ce, lb |-> lb, mid |-> mid, re |-> re,
     l |-> l, r |-> r]

\* Borders that are those of the current node, not clipped to the query.
combineBordersOfNode(begin, end, currBegin, mid, currEnd) ==
    <<currBegin, mid, currEnd>>

\* The borders rangeGetImpl_ hands to combineGet_.
combineBorders(begin, end, currBegin, mid, currEnd) ==
    <<Max(currBegin, begin), mid, Min(currEnd, end)>>

RECURSIVE rangeGetCalls_(_, _, _, _, _, _, _)

\* A walk that visits both children of every node it does not answer from.
rangeGetCallsBothSides_(c, begin, end, currBegin, currEnd, currNode, depth) ==
    LET here == Event("call", currBegin, currEnd, currBegin, currBegin, currEnd,
                      <<>>, <<>>)
    IN  IF depth > MaxDepth \/ begin > currEnd \/ currBegin > end
        THEN {here}
        ELSE IF end >= currEnd /\ begin <= currBegin /\ isLeaf(currNode)
        THEN {here, Event("init", currBegin, currEnd, currBegin, currBegin,
                          currEnd, <<>>, <<>>)}
        ELSE LET sifted == siftDown(c.upd, currNode)
                 mid    == Mid(currBegin, currEnd)
             IN  {here}
                 \cup rangeGetCalls_(c, begin, end, mid, currEnd,
                                     getRight(sifted), depth + 1)
                 \cup rangeGetCalls_(c, begin, end, currBegin, mid,
                                     getLeft(sifted), depth + 1)

\* DynamicSegmentTree::rangeGetImpl_, the events of the walk.
rangeGetCalls_(c, begin, end, currBegin, currEnd, currNode, depth) ==
    LET here == Event("call", currBegin, currEnd, currBegin, currBegin, currEnd,
                      <<>>, <<>>)
    IN  IF depth > MaxDepth \/ begin > currEnd \/ currBegin > end
        THEN {here}
        ELSE IF end >= currEnd /\ begin <= currBegin /\ isLeaf(currNode)
        THEN {here, Event("init", currBegin, currEnd, currBegin, currBegin,
                          currEnd, <<>>, <<>>)}
        ELSE LET inited == IF isLeaf(currNode)
                           THEN initChildrenSiftingValue(currNode) ELSE currNode
                 sifted == optionalSiftNodeUpdate_(c.upd, inited)
                 mid    == Mid(currBegin, currEnd)
             IN  IF begin >= mid
                 THEN {here} \cup rangeGetCalls_(c, begin, end, mid, currEnd,
                                                 getRight(sifted), depth + 1)
                 ELSE IF end <= mid
                 THEN {here} \cup rangeGetCalls_(c, begin, end, currBegin, mid,
                                                 getLeft(sifted), depth + 1)
                 ELSE LET r == rangeGetImpl_(c, begin, end, mid, currEnd,
                                             getRight(sifted), depth + 1)
                          l == rangeGetImpl_(c, begin, end, currBegin, mid,
                                             getLeft(sifted), depth + 1)
                          bs == combineBorders(begin, end, currBegin, mid, currEnd)
                      IN  {here, Event("comb", currBegin, currEnd, bs[1], bs[2],
                                       bs[3], <<l.value>>, <<r.value>>)}
                          \cup rangeGetCalls_(c, begin, end, mid, currEnd,
                                              getRight(sifted), depth + 1)
                          \cup rangeGetCalls_(c, begin, end, currBegin, mid,
                                              getLeft(sifted), depth + 1)

----------------------------------------------------------------------------
(* Tree facade.                                                            *)

\* A constructor that takes end as the last key instead of one past it.
MakeInclusiveEnd(begin, end, value) ==
    [rootNode_ |-> NodeCtor(value), begin_ |-> begin, end_ |-> end - 1]

\* DynamicSegmentTree::DynamicSegmentTree: rootNode_(value), begin_, end_.
Make(begin, end, value) ==
    [rootNode_ |-> NodeCtor(value), begin_ |-> begin, end_ |-> end]

\* set that guards the walk by begin <= end.
setGuardedByLeq(c, t, begin, end, toSet, byMove) ==
    IF begin <= end
    THEN IF byMove
         THEN setImplMove_(c, begin, end, t.begin_, t.end_, t.rootNode_, toSet, 0)
         ELSE setImpl_(c, begin, end, t.begin_, t.end_, t.rootNode_, toSet, 0)
    ELSE Walked(t.rootNode_, 0, 0, "ok")

\* DynamicSegmentTree::set, both overloads: the walk is made only for begin < end.
set(c, t, begin, end, toSet, byMove) ==
    IF begin < end
    THEN IF byMove
         THEN setImplMove_(c, begin, end, t.begin_, t.end_, t.rootNode_, toSet, 0)
         ELSE setImpl_(c, begin, end, t.begin_, t.end_, t.rootNode_, toSet, 0)
    ELSE Walked(t.rootNode_, 0, 0, "ok")

\* DynamicSegmentTree::update, both overloads.
update(c, t, begin, end, toUpdate) ==
    updateImpl_(c, begin, end, t.begin_, t.end_, t.rootNode_, toUpdate, 0)

\* A message that does not stream the key.
OutOfRangeMessageNoKey(t, key) ==
    <<"Get operation is out of range.">>

\* The text of the std::out_of_range thrown by get, piece by piece as it is
\* streamed into the message.
OutOfRangeMessage(t, key) ==
    <<"Get operation for ", ToString(key), ", which is out of range.">>

\* A bounds test that lets key == end_ through.
getThrowsPastEnd(t, key) == key > t.end_ \/ key < t.begin_

\* Whether get throws for the key.
getThrows(t, key) == key >= t.end_ \/ key < t.begin_

\* DynamicSegmentTree::get: the rewritten root and the value, or the message
\* of the exception.
get(c, t, key) ==
    IF getThrows(t, key)
    THEN [node |-> t.rootNode_, value |-> <<>>, what |-> OutOfRangeMessage(t, key)]
    ELSE LET g == getImpl_(c, key, t.begin_, t.end_, t.rootNode_)
         IN  [node |-> g.node, value |-> <<g.value>>, what |-> <<>>]

\* DynamicSegmentTree::rangeGet
rangeGet(c, t, begin, end) ==
    rangeGetImpl_(c, begin, end, t.begin_, t.end_, t.rootNode_, 0)

----------------------------------------------------------------------------
(* The per-key reference of the tests: one value per key, every set and    *)
(* update applied pointwise.                                               *)

RefSet(r, begin, end, v) ==
    [k \in DOMAIN r |-> IF begin <= k /\ k < end THEN v ELSE r[k]]

RefUpdate(upd, r, begin, end, arg) ==
    [k \in DOMAIN r |->
        IF begin <= k /\ k < end
        THEN (IF upd = "binary" THEN UpdateOpPlus(r[k], arg) ELSE Negate(r[k]))
        ELSE r[k]]

----------------------------------------------------------------------------
(* State machine.                                                          *)

Tree == [rootNode_ |-> rootNode_, begin_ |-> begin_, end_ |-> end_]

Called(op, b, e, x) == [op |-> op, b |-> b, e |-> e, x |-> x]

NoRet == [value |-> <<>>, what |-> <<>>]

\* The second tree while it does not exist.
NoTree ==
    [rootNode_ |-> NodeDefault, begin_ |-> 0, end_ |-> 0, shared |-> FALSE,
     copied |-> FALSE]

Exists(t) == t.begin_ < t.end_

\* The number of pairs a tree holds.
Pairs(n) == setOrConstructValueFrees(n)

\* ptr is a raw pointer: a tree whose root holds the pair of another tree's
\* root sees what that tree does below its root.
Through(t, node) ==
    IF t.shared
    THEN [t EXCEPT !.rootNode_ = [@ EXCEPT !.ptr = node.ptr, !.buffer_ = node.buffer_]]
    ELSE t

\* Whether [b, e) is a nonempty range inside the tree's range.
InRange(b, e) == begin_ <= b /\ b < e /\ e <= end_

\* A failed assert or an exhausted stack ends the program.  A run is followed
\* up to its first call outside what the interface documents: a get that
\* throws, or a set or update whose range is empty or reaches outside the
\* tree.  The tree such a call leaves, when the program goes on, is the tree
\* before it or the tree the set of the clipped range leaves.  A run with two
\* trees is followed up to the first call after the copy, and up to the
\* assignment or the move.
Running ==
    /\ outcome = "ok"
    /\ call.op \in {"set", "update"} => InRange(call.b, call.e)
    /\ call.op \notin {"assign", "moveAssign", "move"}
    /\ other.copied => call.op = "copy"

InitTree(upds, combs, builds, ranges) ==
    /\ cfg \in [upd : upds, comb : combs, ndebug : builds]
    /\ \E rng \in ranges, v0 \in FillVals :
          LET t == Make(rng[1], rng[2], v0)
          IN  /\ begin_ = t.begin_
              /\ end_ = t.end_
              /\ rootNode_ = t.rootNode_
              /\ call = Called("make", rng[1], rng[2], v0)
              /\ ref = [k \in rng[1]..(rng[2] - 1) |-> v0]
    /\ outcome = "ok"
    /\ ret = NoRet
    /\ stats = [allocs |-> 0, frees |-> 0]

\* A program with one tree.
InitWith(upds, combs, builds, ranges) ==
    /\ InitTree(upds, combs, builds, ranges)
    /\ other = NoTree

\* tree.set(b, e, v) with b, e drawn from the given sets.
SetCall(Bs, Es) ==
    \E b \in Bs, e \in Es, v \in SetVals, byMove \in BOOLEAN :
        LET w == set(cfg, Tree, b, e, v, byMove)
        IN  /\ Running
            /\ rootNode_' = w.node
            /\ outcome' = w.st
            /\ call' = Called("set", b, e, v)
            /\ ret' = NoRet
            /\ stats' = [allocs |-> w.allocs, frees |-> w.frees]
            /\ ref' = RefSet(ref, b, e, v)
            /\ other' = Through(other, rootNode_')
            /\ UNCHANGED <<cfg, begin_, end_>>

\* Values stay within 0..MaxVal: a binary update that would take a key out
\* of it is not issued.  Negation keeps the values among those held and
\* their opposites.
UpdateFits(b, e, arg) ==
    cfg.upd = "binary" =>
        \A k \in DOMAIN ref :
            LET v == RefUpdate(cfg.upd, ref, b, e, arg)[k]
            IN  0 <= v /\ v <= MaxVal

\* tree.update(b, e, arg) (binary) or tree.update(b, e) (nullary).
UpdateCall(Bs, Es) ==
    \E b \in Bs, e \in Es, arg \in (IF cfg.upd = "binary" THEN UpdArgs ELSE {0}) :
        LET w == update(cfg, Tree, b, e, arg)
        IN  /\ Running
            /\ UpdateFits(b, e, arg)
            /\ rootNode_' = w.node
            /\ outcome' = w.st
            /\ call' = Called("update", b, e, arg)
            /\ ret' = NoRet
            /\ stats' = [allocs |-> w.allocs, frees |-> w.frees]
            /\ ref' = RefUpdate(cfg.upd, ref, b, e, arg)
            /\ other' = Through(other, rootNode_')
            /\ UNCHANGED <<cfg, begin_, end_>>

\* tree.get(key)
GetCall(Ks) ==
    \E key \in Ks :
        LET g == get(cfg, Tree, key)
        IN  /\ Running
            /\ rootNode_' = g.node
            /\ outcome' = IF g.what = <<>> THEN "ok" ELSE "out_of_range"
            /\ call' = Called("get", key, key, 0)
            /\ ret' = [value |-> g.value, what |-> g.what]
            /\ stats' = [allocs |-> 0, frees |-> 0]
            /\ other' = Through(other, rootNode_')
            /\ UNCHANGED <<cfg, begin_, end_, ref>>

\* tree.rangeGet(b, e)
RangeGetCall(Bs, Es) ==
    \E b \in Bs, e \in Es :
        LET g == rangeGet(cfg, Tree, b, e)
        IN  /\ Running
            /\ b < e
            /\ rootNode_' = g.node
            /\ outcome' = g.st
            /\ call' = Called("rangeGet", b, e, 0)
            /\ ret' = [value |-> <<g.value>>, what |-> <<>>]
            /\ stats' = [allocs |-> g.allocs, frees |-> 0]
            /\ other' = Through(other, rootNode_')
            /\ UNCHANGED <<cfg, begin_, end_, ref>>

\* Arguments inside the tree's range, and arguments up to Margin outside it.
InB == begin_..(end_ - 1)
InE == (begin_ + 1)..end_
WideB == (begin_ - Margin)..(end_ + Margin)

\* Calls as the interface documents them: set, update and rangeGet with
\* begin_ <= b < e <= end_, get with a key of the tree; and get with any key
\* around the tree's range.
SetInRange == \E b \in InB : SetCall({b}, {e \in InE : b < e})
UpdateInRange == \E b \in InB : UpdateCall({b}, {e \in InE : b < e})
GetInRange == GetCall(InB)
GetWide == GetCall(WideB)
RangeGetInRange == \E b \in InB : RangeGetCall({b}, {e \in InE : b < e})

Next == SetInRange \/ UpdateInRange \/ GetInRange

\* A tree with the binary update std::plus, built with assertions.
Init == InitWith({"binary"}, {"cat"}, {FALSE}, TreeRanges)

Spec == Init /\ [][Next]_vars

\* Trees of each range-get configuration: the sum tree, the min tree and a
\* tree whose combiner is not commutative.
InitAgg == InitWith({"binary"}, {"sum", "min", "cat"}, {FALSE}, SmallRanges)

NextAgg == SetInRange \/ UpdateInRange \/ RangeGetInRange

SpecAgg == InitAgg /\ [][NextAgg]_vars

\* The negate tree (nullary update, boolean pending flag).
InitNegate == InitWith({"nullary"}, {"cat"}, {FALSE}, SmallRanges)

SpecNegate == InitNegate /\ [][Next]_vars

\* set with any arguments around the tree's range: empty ranges (b >= e) and
\* ranges reaching outside the tree, and get with any key around it, in both
\* builds (assertions compiled in or out).
SetWide == SetCall(WideB, WideB)

InitWide == InitWith({"binary"}, {"cat"}, BOOLEAN, SmallRanges)

NextWide == SetWide \/ UpdateInRange \/ GetWide

SpecWide == InitWide /\ [][NextWide]_vars

\* update with an empty range (b >= e) anywhere around the tree's range, on
\* trees of both update variations.
UpdateEmpty == \E b \in WideB : UpdateCall({b}, {e \in WideB : e <= b})

InitNoOp == InitWith({"binary", "nullary"}, {"cat"}, {FALSE}, SmallRanges)

NextNoOp == SetInRange \/ UpdateInRange \/ UpdateEmpty

SpecNoOp == InitNoOp /\ [][NextNoOp]_vars

\* Trees of both update variations under every documented call: set, update,
\* get and rangeGet in range.
InitAll == InitWith({"binary", "nullary"}, {"cat"}, {FALSE}, SmallRanges)

NextAll == SetInRange \/ UpdateInRange \/ GetInRange \/ RangeGetInRange

SpecAll == InitAll /\ [][NextAll]_vars

\* The second tree after a call on it that left node as its root; the first
\* tree sees the call when the two roots hold the same pair.
OtherStep(node, st, op, b, e, x, value, allocs, frees) ==
    /\ other' = [other EXCEPT !.rootNode_ = node]
    /\ rootNode_' = IF other.shared
                    THEN [rootNode_ EXCEPT !.ptr = node.ptr, !.buffer_ = node.buffer_]
                    ELSE rootNode_
    /\ outcome' = st
    /\ call' = Called(op, b, e, x)
    /\ ret' = [value |-> value, what |-> <<>>]
    /\ stats' = [allocs |-> allocs, frees |-> frees]
    /\ UNCHANGED <<cfg, begin_, end_, ref>>

OtherB == other.begin_..(other.end_ - 1)
OtherE == (other.begin_ + 1)..other.end_

\* other.set(b, e, v) in range.
OtherSet ==
    \E b \in OtherB, e \in OtherE, v \in SetVals, byMove \in BOOLEAN :
        LET w == set(cfg, other, b, e, v, byMove)
        IN  /\ Running
            /\ b < e
            /\ OtherStep(w.node, w.st, "other.set", b, e, v, <<>>, w.allocs, w.frees)

\* Values stay within 0..MaxVal on the second tree as well.
OtherFits(b, e, arg) ==
    cfg.upd = "binary" =>
        \A k \in b..(e - 1) :
            LET v == get(cfg, other, k).value[1] + arg
            IN  0 <= v /\ v <= MaxVal

\* other.update(b, e, arg) or other.update(b, e) in range.
OtherUpdate ==
    \E b \in OtherB, e \in OtherE, arg \in (IF cfg.upd = "binary" THEN UpdArgs ELSE {0}) :
        LET w == update(cfg, other, b, e, arg)
        IN  /\ Running
            /\ b < e
            /\ OtherFits(b, e, arg)
            /\ OtherStep(w.node, w.st, "other.update", b, e, arg, <<>>, w.allocs, w.frees)

\* other.get(key) in range.
OtherGet ==
    \E key \in OtherB :
        LET g == get(cfg, other, key)
        IN  /\ Running
            /\ OtherStep(g.node, "ok", "other.get", key, key, 0, g.value, 0, 0)

\* other.rangeGet(b, e) in range.
OtherRangeGet ==
    \E b \in OtherB, e \in OtherE :
        LET g == rangeGet(cfg, other, b, e)
        IN  /\ Running
            /\ b < e
            /\ OtherStep(g.node, g.st, "other.rangeGet", b, e, 0, <<g.value>>, g.allocs, 0)

\* A call that builds or overwrites the second tree from the first.
Transfer(op, t, node, st, allocs, frees) ==
    /\ Running
    /\ other' = t
    /\ rootNode_' = node
    /\ outcome' = st
    /\ call' = Called(op, begin_, end_, 0)
    /\ ret' = NoRet
    /\ stats' = [allocs |-> allocs, frees |-> frees]
    /\ UNCHANGED <<cfg, begin_, end_, ref>>

\* DynamicSegmentTree other = tree: the root is copy-constructed with the
\* allocator, begin_ and end_ are copied.  The two roots hold one pair when
\* the copy holds a pair it did not allocate.
CopyConstruct ==
    LET c == NodeCopy(rootNode_)
    IN  /\ ~Exists(other)
        /\ Transfer("copy",
                    [rootNode_ |-> c.node, begin_ |-> begin_, end_ |-> end_,
                     shared |-> Pairs(c.node) > c.allocs, copied |-> TRUE],
                    rootNode_, "ok", c.allocs, c.frees)

\* other = tree (copy assignment): the root is assigned with the allocator,
\* begin_ and end_ are copied.
CopyAssign ==
    \E st \in assignEnds(cfg.upd) :
        LET c == assign(other.rootNode_, rootNode_)
        IN  /\ Exists(other)
            /\ Transfer("assign",
                        [rootNode_ |-> c.node, begin_ |-> begin_, end_ |-> end_,
                         shared |-> FALSE, copied |-> FALSE],
                        rootNode_, st, c.allocs, c.frees)

\* What a move leaves in the tree moved from: a root without children.
MovedFrom == [rootNode_ EXCEPT !.ptr = <<>>]

\* DynamicSegmentTree other = std::move(tree)
MoveConstruct ==
    /\ ~Exists(other)
    /\ Transfer("move",
                [rootNode_ |-> NodeMove(rootNode_), begin_ |-> begin_,
                 end_ |-> end_, shared |-> FALSE,
                 copied |-> FALSE],
                MovedFrom, "ok", 0, 0)

\* other = std::move(tree)
MoveAssign ==
    \E st \in assignEnds(cfg.upd) :
        /\ Exists(other)
        /\ Transfer("moveAssign",
                    [rootNode_ |-> moveAssign(other.rootNode_, rootNode_),
                     begin_ |-> begin_, end_ |-> end_, shared |-> FALSE,
                 copied |-> FALSE],
                    MovedFrom, st, 0, 0)

\* Key ranges of trees that get copied and of trees that get assigned to:
\* three keys each, so that a node below the root can be internal; the two
\* ranges differ and split alike.
CopyRanges == {<<0, 3>>}

\* The tree under the calls made on it: other.set, other.update.
OtherAfterSet(c, t, b, e, v) ==
    [t EXCEPT !.rootNode_ = set(c, t, b, e, v, FALSE).node]

OtherAfterUpdate(c, t, b, e) ==
    [t EXCEPT !.rootNode_ = update(c, t, b, e, 1).node]

\* Trees that get assigned to, over [2, 5): a fresh one; one whose root and
\* right child are internal; that one with a pending update on the right
\* child; and with a pending update on the root.
DestTrees(c) ==
    LET m  == Make(2, 5, 0)
        t0 == [rootNode_ |-> m.rootNode_, begin_ |-> m.begin_, end_ |-> m.end_,
               shared |-> FALSE, copied |-> FALSE]
        t1 == OtherAfterSet(c, t0, 3, 4, 1)
    IN  {t0, t1, OtherAfterUpdate(c, t1, 3, 5), OtherAfterUpdate(c, t1, 2, 5)}

\* A tree of either update variation is called, copied at some point, and
\* then the tree or its copy is called.
InitCopy == InitWith({"binary", "nullary"}, {"cat"}, {FALSE}, CopyRanges)

NextCopy ==
    \/ SetInRange
    \/ UpdateInRange
    \/ GetInRange
    \/ RangeGetInRange
    \/ CopyConstruct
    \/ OtherSet
    \/ OtherUpdate
    \/ OtherGet
    \/ OtherRangeGet

SpecCopy == InitCopy /\ [][NextCopy]_vars

\* A tree of either update variation is built by sets and updates, then
\* assigned or moved to a second tree, or moved into a new one.
InitAssign ==
    /\ InitTree({"binary", "nullary"}, {"cat"}, {FALSE}, CopyRanges)
    /\ other \in {NoTree} \cup DestTrees(cfg)

NextAssign ==
    \/ SetInRange
    \/ UpdateInRange
    \/ CopyAssign
    \/ MoveConstruct
    \/ MoveAssign

SpecAssign == InitAssign /\ [][NextAssign]_vars

----------------------------------------------------------------------------
\* Node operations with their failure points.  The value type's constructors
\* and the update operator are the user's code and may throw.

\* The outcome of a node operation: the node left behind, the operator
\* applications still to succeed, whether an exception propagates, and the
\* pairs allocated and deallocated.
Tried(node, k, thrown, allocs, frees) ==
    [node |-> node, k |-> k, thrown |-> thrown, allocs |-> allocs, frees |-> frees]

\* What a move construction that throws may leave in its source: the value
\* untouched, or the value already emptied.
MoveSource(value) == {value, 0}

\* BaseNode::initChildrenSiftingValue, failing at fault: "allocate" (the pair
\* allocation), "left" (the copy of the value into the left child), "right"
\* (the construction of the right child's value, a move when T is move
\* constructible, leaving src in this node), or "none".
initChildrenSiftingValueThrowing(n, fault, movable, src) ==
    IF fault = "allocate"
    THEN Tried(n, 0, TRUE, 0, 0)
    ELSE LET allocated == [n EXCEPT !.ptr = <<NodeDefault, NodeDefault>>]
             released == [allocated EXCEPT !.ptr = <<>>]
         IN  IF fault = "left"
             THEN Tried(released, 0, TRUE, 1, 1)
             ELSE IF fault = "right"
             THEN Tried(IF movable
                        THEN [released EXCEPT !.buffer_ = <<src>>]
                        ELSE released,
                        0, TRUE, 1, 1)
             ELSE Tried(initChildrenSiftingValue(n), 0, FALSE, 1, 0)

\* The update operators the node is instantiated with: addition, the
\* reflection a - x (applications of it do not commute), and the nullary
\* negation.
ApplyOp(op, x, a) ==
    IF op = "plus" THEN UpdateOpPlus(x, a)
    ELSE IF op = "negate" THEN Negate(x)
    ELSE a - x

\* The pending slot of a node as a sequence: updateValue_ of the binary
\* variation, toUpdate_ of the nullary one.
slotOf(op, n) ==
    IF op = "negate" THEN (IF n.toUpdate_ THEN <<0>> ELSE <<>>) ELSE n.updateValue_

storeSlot(op, n, updateVal) ==
    IF op = "negate"
    THEN [n EXCEPT !.toUpdate_ = TRUE]
    ELSE [n EXCEPT !.updateValue_ = <<updateVal>>]

clearSlot(op, n) ==
    IF op = "negate"
    THEN [n EXCEPT !.toUpdate_ = FALSE]
    ELSE [n EXCEPT !.updateValue_ = <<>>]

\* An update that stores its argument in the slot of an internal node without
\* pushing the pending one down.
updateOverwriting(op, n, updateVal, k) ==
    IF ~isLeaf(n)
    THEN Tried(storeSlot(op, n, updateVal), k, FALSE, 0, 0)
    ELSE Tried(setOrConstructValue(n, ApplyOp(op, getValue(n), updateVal)),
               k, FALSE, 0, 0)

\* Node::update of either variation; the operator throws at its (k + 1)-th
\* application.
RECURSIVE updateThrowing(_, _, _, _)
updateThrowing(op, n, updateVal, k) ==
    IF ~isLeaf(n)
    THEN IF slotOf(op, n) # <<>>
         THEN LET l == updateThrowing(op, getLeft(n), slotOf(op, n)[1], k)
                  nl == [n EXCEPT !.ptr[1] = l.node]
              IN  IF l.thrown
                  THEN Tried(nl, l.k, TRUE, 0, 0)
                  ELSE LET r == updateThrowing(op, getRight(n), slotOf(op, n)[1], l.k)
                           nr == [nl EXCEPT !.ptr[2] = r.node]
                       IN  IF r.thrown
                           THEN Tried(nr, r.k, TRUE, 0, 0)
                           ELSE Tried(storeSlot(op, nr, updateVal), r.k, FALSE, 0, 0)
         ELSE Tried(storeSlot(op, n, updateVal), k, FALSE, 0, 0)
    ELSE IF k = 0
         THEN Tried(n, 0, TRUE, 0, 0)
         ELSE Tried(setOrConstructValue(n, ApplyOp(op, getValue(n), updateVal)),
                    k - 1, FALSE, 0, 0)

\* A siftOptUpdate that empties the slot before it updates the children.
siftOptUpdateClearingFirst(op, n, k) ==
    IF slotOf(op, n) # <<>>
    THEN LET l == updateThrowing(op, getLeft(n), slotOf(op, n)[1], k)
             nl == [clearSlot(op, n) EXCEPT !.ptr[1] = l.node]
         IN  IF l.thrown
             THEN Tried(nl, l.k, TRUE, 0, 0)
             ELSE LET r == updateThrowing(op, getRight(n), slotOf(op, n)[1], l.k)
                  IN  Tried([nl EXCEPT !.ptr[2] = r.node], r.k, r.thrown, 0, 0)
    ELSE Tried(n, k, FALSE, 0, 0)

\* Node::siftOptUpdate of either variation; the operator throws at its
\* (k + 1)-th application.
siftOptUpdateThrowing(op, n, k) ==
    IF slotOf(op, n) # <<>>
    THEN LET l == updateThrowing(op, getLeft(n), slotOf(op, n)[1], k)
             nl == [n EXCEPT !.ptr[1] = l.node]
         IN  IF l.thrown
             THEN Tried(nl, l.k, TRUE, 0, 0)
             ELSE LET r == updateThrowing(op, getRight(n), slotOf(op, n)[1], l.k)
                      nr == [nl EXCEPT !.ptr[2] = r.node]
                  IN  IF r.thrown
                      THEN Tried(nr, r.k, TRUE, 0, 0)
                      ELSE Tried(clearSlot(op, nr), r.k, FALSE, 0, 0)
    ELSE Tried(n, k, FALSE, 0, 0)

\* The node a path of child indices leads to, and the subtree with that node
\* replaced.
RECURSIVE NodeAt(_, _)
NodeAt(n, path) ==
    IF path = <<>> THEN n ELSE NodeAt(n.ptr[Head(path)], Tail(path))

RECURSIVE Replaced(_, _, _)
Replaced(n, path, m) ==
    IF path = <<>>
    THEN m
    ELSE [n EXCEPT !.ptr[Head(path)] = Replaced(n.ptr[Head(path)], Tail(path), m)]

RECURSIVE HasNode(_, _)
HasNode(n, path) ==
    IF path = <<>>
    THEN TRUE
    ELSE ~isLeaf(n) /\ HasNode(n.ptr[Head(path)], Tail(path))

\* The value a position below a node stands for: the value of the leaf the
\* position falls in, with the pending updates of the internal nodes above it
\* applied from the deepest one up.
RECURSIVE NodeValueAt(_, _, _)
NodeValueAt(op, n, pos) ==
    IF isLeaf(n)
    THEN getValue(n)
    ELSE LET v == NodeValueAt(op, n.ptr[Head(pos)], Tail(pos))
         IN  IF slotOf(op, n) # <<>> THEN ApplyOp(op, v, slotOf(op, n)[1]) ELSE v

RECURSIVE LeafValues(_)
LeafValues(n) ==
    IF isLeaf(n) THEN {getValue(n)} ELSE LeafValues(getLeft(n)) \cup LeafValues(getRight(n))

----------------------------------------------------------------------------
\* A program that drives one node and its left child through the node
\* interface, with the failures of the value type and of the update operator
\* drawn freely.

Paths == {<<>>, <<1>>}

Positions == {<<1, 1>>, <<1, 2>>, <<2, 1>>}

InitFaults == {"none", "allocate", "left", "right"}

MaxApplied == 3

NodeCalled(op, path, x, fault) == [op |-> op, path |-> path, x |-> x, fault |-> fault]

NodeStep(t, op, path, x, fault, applied) ==
    /\ \A v \in LeafValues(Replaced(rootNode_, path, t.node)) : -MaxVal <= v /\ v <= MaxVal
    /\ rootNode_' = Replaced(rootNode_, path, t.node)
    /\ outcome' = IF t.thrown THEN "throw" ELSE "ok"
    /\ call' = NodeCalled(op, path, x, fault)
    /\ stats' = [allocs |-> t.allocs, frees |-> t.frees, applied |-> applied]
    /\ UNCHANGED <<cfg, begin_, end_, ret, ref, other>>

InitNode ==
    /\ cfg \in [op : {"plus", "reflect", "negate"}, movable : BOOLEAN]
    /\ rootNode_ = NodeCtor(0)
    /\ begin_ = 0
    /\ end_ = 0
    /\ outcome = "ok"
    /\ call = NodeCalled("ctor", <<>>, 0, "none")
    /\ ret = NoRet
    /\ stats = [allocs |-> 0, frees |-> 0, applied |-> 0]
    /\ ref = <<>>
    /\ other = NoTree

UpdOf(op) == IF op = "negate" THEN "nullary" ELSE "binary"

\* node.initChildren() on a leaf.
NodeInitChildren ==
    \E path \in Paths, fault \in InitFaults :
        /\ HasNode(rootNode_, path)
        /\ isLeaf(NodeAt(rootNode_, path))
        /\ \E src \in MoveSource(getValue(NodeAt(rootNode_, path))) :
              NodeStep(initChildrenSiftingValueThrowing(NodeAt(rootNode_, path), fault,
                                                        cfg.movable, src),
                       "initChildren", path, 0, fault, 0)

\* node.setValue(v).
NodeSetValue ==
    \E path \in Paths, v \in SetVals \cup FillVals :
        /\ HasNode(rootNode_, path)
        /\ LET n == NodeAt(rootNode_, path)
           IN  NodeStep(Tried(setValue(UpdOf(cfg.op), n, v), 0, FALSE, 0,
                              setOrConstructValueFrees(n)),
                        "setValue", path, v, "none", 0)

\* node.update(updateOp, arg); the operator throws at its (k + 1)-th
\* application, if the call makes that many.
NodeUpdate ==
    \E path \in Paths, arg \in UpdArgs, k \in 0..MaxApplied :
        /\ HasNode(rootNode_, path)
        /\ LET t == updateThrowing(cfg.op, NodeAt(rootNode_, path), arg, k)
           IN  NodeStep(t, "update", path, arg, "none", k - t.k)

\* node.siftOptUpdate(updateOp) on an internal node.
NodeSiftOptUpdate ==
    \E path \in Paths, k \in 0..MaxApplied :
        /\ HasNode(rootNode_, path)
        /\ ~isLeaf(NodeAt(rootNode_, path))
        /\ LET t == siftOptUpdateThrowing(cfg.op, NodeAt(rootNode_, path), k)
           IN  NodeStep(t, "siftOptUpdate", path, 0, "none", k - t.k)

NextNode ==
    \/ NodeInitChildren
    \/ NodeSetValue
    \/ NodeUpdate
    \/ NodeSiftOptUpdate

SpecNode == InitNode /\ [][NextNode]_vars

----------------------------------------------------------------------------
(* Properties.                                                             *)

\* What get(k) returns on the current tree: <<v>>, or <<>> when it throws.
ValueOf(k) == get(cfg, Tree, k).value

\* What get(k) returns on the tree a step leaves.
NextValueOf(k) ==
    get(cfg, [rootNode_ |-> rootNode_', begin_ |-> begin_', end_ |-> end_'], k).value

\* Whether some child of the root holds a pending update.
PendingBelowRoot ==
    /\ ~isLeaf(rootNode_)
    /\ \E i \in {1, 2} : hasPending(cfg.upd, rootNode_.ptr[i])

\* The left-to-right fold of the reference over [b, e): each key's value is
\* lifted over its own span and combined to the right of what precedes it.
RECURSIVE FoldLeft(_, _, _, _)
FoldLeft(comb, r, b, e) ==
    IF e = b + 1
    THEN SegGetInit(comb, r[b], b, e)
    ELSE SegGetComb(comb, FoldLeft(comb, r, b, e - 1),
                    SegGetInit(comb, r[e - 1], e - 1, e), b, e - 1, e)

\* C1: after any sequence of in-range set and update calls, interleaved with
\* gets, get(k) returns for every key what the per-key reference holds.
C1_GetMatchesReference ==
    outcome = "ok" =>
        \A k \in InB : ValueOf(k) = <<ref[k]>>

\* A get has just returned on a tree that went through sets and updates
\* (three different values are held) and still has a pending update below
\* the root.
C1_Witness ==
    /\ call.op = "get"
    /\ outcome = "ok"
    /\ PendingBelowRoot
    /\ Cardinality({ref[k] : k \in InB}) >= 3

C3_NegateGetMatchesReference ==
    (cfg.upd = "nullary" /\ outcome = "ok") =>
        \A k \in InB : ValueOf(k) = <<ref[k]>>

\* Whether msg streams the number n.
Mentions(msg, n) == \E i \in DOMAIN msg : msg[i] = ToString(n)

C5_ErrorCarriesKeyAndBounds ==
    outcome = "out_of_range" =>
        /\ Mentions(ret.what, call.b)
        /\ Mentions(ret.what, begin_)
        /\ Mentions(ret.what, end_)

\* C5 amended: the error of a failing get carries the offending key, between
\* two fixed pieces of text.
C5_ErrorCarriesKey ==
    outcome = "out_of_range" =>
        /\ Len(ret.what) = 3
        /\ ret.what[2] = ToString(call.b)

\* get(begin_ - 1) has just thrown: the key differs from both bounds.
C5_Witness ==
    /\ call.op = "get"
    /\ outcome = "out_of_range"
    /\ call.b = begin_ - 1
    /\ ret.what # <<>>

\* C6: right after construction with (begin, end, v0) the root is a single
\* leaf holding v0 with no pending update, and get(k) = v0 for every key of
\* [begin, end).
C6_FreshTreeIsOneLeaf ==
    call.op = "make" =>
        /\ isLeaf(rootNode_)
        /\ rootNode_.buffer_ = <<call.x>>
        /\ rootNode_.updateValue_ = <<>>
        /\ ~rootNode_.toUpdate_
        /\ \A k \in call.b..(call.e - 1) : ValueOf(k) = <<call.x>>

\* A tree over negative keys has just been constructed.
C6_Witness ==
    /\ call.op = "make"
    /\ begin_ < 0
    /\ end_ - begin_ >= 3
    /\ ValueOf(end_ - 1) = <<call.x>>

\* Whether the last/next call's range [b, e) is nonempty, overlaps the tree's
\* range and reaches outside it.
OverlapsBeyond(b, e) ==
    /\ b < e
    /\ b < end_ /\ e > begin_
    /\ (b < begin_ \/ e > end_)

C8_SetTerminates ==
    (call.op = "set" /\ call.b < call.e) =>
        /\ outcome = "ok"
        /\ (call.e <= begin_ \/ end_ <= call.b) =>
               \A k \in InB : ValueOf(k) = <<ref[k]>>

\* C9: after update(b, e, arg) with begin_ <= b < e <= end_, get(k) is
\* U(old, arg) for every key of [b, e) and what it was for every other key;
\* after several overlapping updates every key holds the reference's value,
\* which applies to it the updates covering it, in call order.
C9_UpdateAppliesInside ==
    /\ [][call'.op = "update" =>
            \A k \in InB :
                NextValueOf(k) = IF call'.b <= k /\ k < call'.e
                              THEN <<UpdateOpPlus(ValueOf(k)[1], call'.x)>>
                              ELSE ValueOf(k)]_vars
    /\ [](call.op = "update" => \A k \in InB : ValueOf(k) = <<ref[k]>>)

\* An update over part of the tree has just returned, leaving a pending
\* argument below the root; a key covered by two updates holds their sum and
\* its neighbours on both sides hold less.
C9_Witness ==
    /\ call.op = "update"
    /\ outcome = "ok"
    /\ PendingBelowRoot
    /\ \E k \in InB :
          /\ k - 1 \in InB /\ k + 1 \in InB
          /\ ref[k] = 2 /\ ref[k - 1] = 1 /\ ref[k + 1] = 1

\* C10: set(b, e, v) with b >= e changes nothing: the tree, with its nodes,
\* values and pending updates, is what it was, and nothing is allocated or
\* freed.
C10_EmptySetIsNoOp ==
    [][(call'.op = "set" /\ call'.b >= call'.e) =>
          /\ rootNode_' = rootNode_
          /\ outcome' = "ok"
          /\ stats' = [allocs |-> 0, frees |-> 0]
          /\ \A k \in InB : NextValueOf(k) = ValueOf(k)]_vars

\* set(b, e, v) with b > e and set(b, b, v) have been called on a tree that
\* has children and a pending update in its root.
C10_Witness ==
    /\ call.op = "set"
    /\ call.b >= call.e
    /\ outcome = "ok"
    /\ ~isLeaf(rootNode_)
    /\ hasPending(cfg.upd, rootNode_)

\* Whether no node of the subtree holds a pending update.
RECURSIVE NoPending(_)
NoPending(n) ==
    /\ n.updateValue_ = <<>>
    /\ ~n.toUpdate_
    /\ isLeaf(n) \/ (NoPending(getLeft(n)) /\ NoPending(getRight(n)))

\* C11: update(b, e[, arg]) with b >= e returns and is a no-op: no key's
\* value changes, and a tree that held no pending update holds none after it.
C11_EmptyUpdateIsNoOp ==
    [][(call'.op = "update" /\ call'.b >= call'.e) =>
          /\ outcome' = "ok"
          /\ \A k \in InB : NextValueOf(k) = ValueOf(k)
          /\ NoPending(rootNode_) => NoPending(rootNode_')]_vars

\* The tree with another root.
WithRoot(node) == [rootNode_ |-> node, begin_ |-> begin_, end_ |-> end_]

\* C16: set is idempotent: right after set(b, e, v) with b < e in range, the
\* same call made again (by either overload) returns and leaves the tree
\* exactly as it is: same nodes, same values, same pending slots.
C16_SetIsIdempotent ==
    (call.op = "set" /\ outcome = "ok" /\ InRange(call.b, call.e)) =>
        \A byMove \in BOOLEAN :
            LET w == set(cfg, Tree, call.b, call.e, call.x, byMove)
            IN  w.st = "ok" /\ w.node = rootNode_

\* A set of one key has just returned on a tree that keeps a pending update
\* below the root, on the side the set did not visit.
C16_Witness ==
    /\ call.op = "set"
    /\ outcome = "ok"
    /\ call.e - call.b = 1
    /\ PendingBelowRoot

\* C17: set-clobber: right after set(b, e, v) with b < e in range, any update
\* whose range lies within [b, e) followed by the same set again leaves the
\* tree exactly as it is now: same nodes, same values, same pending slots.
C17_SetClobbersUpdate ==
    (call.op = "set" /\ outcome = "ok" /\ InRange(call.b, call.e)) =>
        \A ub \in call.b..(call.e - 1), ue \in (call.b + 1)..call.e,
           arg \in (IF cfg.upd = "binary" THEN UpdArgs ELSE {0}),
           byMove \in BOOLEAN :
            ub < ue =>
                LET u == update(cfg, Tree, ub, ue, arg)
                    w == set(cfg, WithRoot(u.node), call.b, call.e, call.x, byMove)
                IN  u.st = "ok" /\ w.st = "ok" /\ w.node = rootNode_

\* C18: after set(b, e, v) with b <= begin_ and e >= end_, whatever the tree
\* was, the root is a single leaf holding v, every pair of children the tree
\* had has been returned to the allocator, and no pending update remains.
C18_FullSetLeavesOneLeaf ==
    [][(call'.op = "set" /\ call'.b <= begin_ /\ call'.e >= end_) =>
          /\ outcome' = "ok"
          /\ isLeaf(rootNode_')
          /\ rootNode_'.buffer_ = <<call'.x>>
          /\ stats'.frees = setOrConstructValueFrees(rootNode_)
          /\ rootNode_'.updateValue_ = <<>>
          /\ ~rootNode_'.toUpdate_]_vars

\* Whether some internal node of the subtree n over [lo, hi) has all its keys
\* resolve to one value.
RECURSIVE HasUniformInternal(_, _, _)
HasUniformInternal(n, lo, hi) ==
    /\ ~isLeaf(n)
    /\ \/ \A k \in lo..(hi - 1) : ValueOf(k) = ValueOf(lo)
       \/ HasUniformInternal(getLeft(n), lo, Mid(lo, hi))
       \/ HasUniformInternal(getRight(n), Mid(lo, hi), hi)

\* C19 as stated: in every reachable state no internal node exists all of
\* whose keys resolve to the same value.
C19_UniformSubtreeIsLeaf ==
    outcome = "ok" => ~HasUniformInternal(rootNode_, begin_, end_)

\* Whether every node of the subtree n over [lo, hi) whose span lies within
\* [b, e) is a leaf holding v.
RECURSIVE CoveredAreLeaves(_, _, _, _, _, _)
CoveredAreLeaves(n, lo, hi, b, e, v) ==
    IF b <= lo /\ hi <= e
    THEN isLeaf(n) /\ n.buffer_ = <<v>>
    ELSE isLeaf(n) \/ ( /\ CoveredAreLeaves(getLeft(n), lo, Mid(lo, hi), b, e, v)
                        /\ CoveredAreLeaves(getRight(n), Mid(lo, hi), hi, b, e, v) )

\* C19, amended: a subtree is collapsed by the assignment that covers it.
\* Right after set(b, e, v) with begin_ <= b < e <= end_, every node whose
\* span lies within [b, e) is a single leaf holding v.
C19_CoveredSubtreeIsLeaf ==
    (call.op = "set" /\ outcome = "ok" /\ InRange(call.b, call.e)) =>
        CoveredAreLeaves(rootNode_, begin_, end_, call.b, call.e, call.x)

\* A set that covered an internal node below the root has just collapsed it.
C19_Witness ==
    /\ call.op = "set"
    /\ outcome = "ok"
    /\ InRange(call.b, call.e)
    /\ stats.frees > 0
    /\ ~isLeaf(rootNode_)

\* C20: get and rangeGet are logically read-only.  Across an in-range get(k)
\* or rangeGet(b, e) on any reachable tree, every key resolves to the value
\* it resolved to before the call.
C20_QueriesAreReadOnly ==
    [][(call'.op \in {"get", "rangeGet"} /\ outcome' = "ok") =>
          \A k \in InB : NextValueOf(k) = ValueOf(k)]_vars

\* Whether the tree t answers every get and every rangeGet over the range of
\* the first tree as the first tree does.
AnswersAsTree(t) ==
    /\ t.begin_ = begin_
    /\ t.end_ = end_
    /\ \A k \in InB : get(cfg, t, k).value = ValueOf(k)
    /\ \A b \in InB, e \in InE :
          b < e => rangeGet(cfg, t, b, e).value = rangeGet(cfg, Tree, b, e).value

\* C12: copy-constructing a tree from a tree in any reachable state, pending
\* updates below the root included, yields a tree with the same topology,
\* leaf values and pending slots, which answers every get and rangeGet as the
\* original does.
C12_CopyIsSameTree ==
    [][call'.op = "copy" =>
          /\ other'.rootNode_ = rootNode_
          /\ AnswersAsTree(other')]_vars

\* C13: after a copy the two trees share no node.  A call on the copy leaves
\* the original as it was, and a call on the original leaves the copy as it
\* was.
C13_CopyIsDisjoint ==
    [][/\ call'.op = "copy" => ~other'.shared
       /\ (other.copied /\ call'.op \in {"set", "update", "get", "rangeGet"}) =>
             other' = other
       /\ call'.op \in {"other.set", "other.update", "other.get", "other.rangeGet"} =>
             (rootNode_' = rootNode_ /\ begin_' = begin_ /\ end_' = end_)]_vars

\* A set on the copy of a tree that holds pairs has just made the copy
\* differ from the original.
C13_Witness ==
    /\ call.op = "other.set"
    /\ outcome = "ok"
    /\ ~isLeaf(rootNode_)
    /\ ~isLeaf(other.rootNode_)
    /\ other.rootNode_ # rootNode_

\* C14: after the copy assignment other = tree, whatever tree other was, other
\* answers every get and rangeGet as tree does, and tree is unchanged.
C14_AssignedAnswersAsSource ==
    [][call'.op = "assign" =>
          /\ outcome' = "ok"
          /\ rootNode_' = rootNode_
          /\ AnswersAsTree(other')]_vars

\* C15: after other = move(tree), by construction or by assignment, other
\* answers every get and rangeGet as tree did before the move.
C15_MovedAnswersAsSource ==
    [][call'.op \in {"move", "moveAssign"} =>
          /\ outcome' = "ok"
          /\ AnswersAsTree(other')]_vars

\* Whether every leaf of the subtree n has an empty pending slot.
RECURSIVE LeavesHaveNoPending(_)
LeavesHaveNoPending(n) ==
    IF isLeaf(n)
    THEN n.updateValue_ = <<>> /\ ~n.toUpdate_
    ELSE LeavesHaveNoPending(getLeft(n)) /\ LeavesHaveNoPending(getRight(n))

\* C21: in every reachable state and in both update variations a pending
\* slot is nonempty only on an internal node: every leaf has an empty slot or
\* a false flag, a leaf that setValue has just collapsed included.
C21_PendingOnlyOnInternal ==
    outcome = "ok" => LeavesHaveNoPending(rootNode_)

\* C22: every invocation of the set walk satisfies its asserted precondition
\* currBegin < end, currEnd > begin and begin < end: the root call made by
\* set(b, e, v) with b < e, and each recursive call (no assert fails in a
\* build with assertions).
C22_SetWalkPrecondition ==
    (call.op = "set" /\ call.b < call.e) =>
        /\ setImplAsserts(call.b, call.e, begin_, end_)
        /\ outcome # "abort"

\* The events of the rangeGet a step makes, on the tree before the step.
NextRangeGetCalls ==
    rangeGetCalls_(cfg, call'.b, call'.e, begin_, end_, rootNode_, 0)

\* C23: for rangeGet(b, e) with begin_ <= b < e <= end_ every invocation of
\* the range-get walk is on a node whose span [cb, ce) meets [b, e) (cb < e
\* and b < ce); the branch guarded by begin > currEnd || currBegin > end is
\* never taken.
C23_RangeGetWalkOverlaps ==
    [][call'.op = "rangeGet" =>
          /\ outcome' = "ok"
          /\ \A ev \in NextRangeGetCalls :
                ev.ev = "call" =>
                    /\ ev.cb < call'.e /\ call'.b < ev.ce
                    /\ ~(call'.b > ev.ce \/ ev.cb > call'.e)]_vars

\* A rangeGet over part of the tree has just split a leaf that straddles the
\* range and descended below the root's children.
C23_Witness ==
    /\ call.op = "rangeGet"
    /\ outcome = "ok"
    /\ stats.allocs > 0
    /\ begin_ < call.b
    /\ call.e - call.b = 1
    /\ \E i \in {1, 2} : ~isLeaf(rootNode_.ptr[i])

\* The value each key of the tree resolves to.
Values == [k \in InB |-> ValueOf(k)[1]]

\* C28: during rangeGet(b, e) with begin_ <= b < e <= end_, every combiner
\* call at a node [cb, ce) receives lb = max(cb, b), the node's mid and
\* re = min(ce, e), with b <= lb < mid < re <= e, its first argument the
\* aggregate of exactly [lb, mid) and its second that of exactly [mid, re);
\* every initializer call receives the span of a leaf inside [b, e).
C28_CombinerGetsItsSpans ==
    [][call'.op = "rangeGet" =>
          \A ev \in NextRangeGetCalls :
              /\ ev.ev = "comb" =>
                    /\ ev.lb = Max(ev.cb, call'.b)
                    /\ ev.mid = Mid(ev.cb, ev.ce)
                    /\ ev.re = Min(ev.ce, call'.e)
                    /\ call'.b <= ev.lb /\ ev.lb < ev.mid
                    /\ ev.mid < ev.re /\ ev.re <= call'.e
                    /\ ev.l = <<FoldLeft(cfg.comb, Values, ev.lb, ev.mid)>>
                    /\ ev.r = <<FoldLeft(cfg.comb, Values, ev.mid, ev.re)>>
              /\ ev.ev = "init" =>
                    /\ call'.b <= ev.cb /\ ev.cb < ev.ce /\ ev.ce <= call'.e]_vars

\* A rangeGet that starts inside the tree and ends at its end has just
\* combined the aggregates of two parts holding different values.
C28_Witness ==
    /\ call.op = "rangeGet"
    /\ cfg.comb = "cat"
    /\ outcome = "ok"
    /\ begin_ < call.b
    /\ call.e - call.b >= 2
    /\ ret.value[1][1] # ret.value[1][2]

\* The spans of the internal nodes of the subtree n over [lo, hi), each node
\* split where the walks split it.
RECURSIVE SplitSpans(_, _, _)
SplitSpans(n, lo, hi) ==
    IF isLeaf(n)
    THEN {}
    ELSE {<<lo, hi>>} \cup SplitSpans(getLeft(n), lo, Mid(lo, hi))
                      \cup SplitSpans(getRight(n), Mid(lo, hi), hi)

RECURSIVE Depth(_)
Depth(n) ==
    IF isLeaf(n) THEN 0 ELSE 1 + Max(Depth(getLeft(n)), Depth(getRight(n)))

\* The least d with 2^d >= n, for n >= 1.
RECURSIVE CeilLog2(_)
CeilLog2(n) == IF n <= 1 THEN 0 ELSE 1 + CeilLog2((n + 1) \div 2)

\* C30: in every state reached by set, update, get and rangeGet calls with
\* b < e, every internal node has a span of at least two keys and a split
\* point with lo < mid < hi (init_children is never invoked on a node whose
\* span holds 0 or 1 key), and the depth of the tree is at most
\* ceil(log2(end_ - begin_)).
C30_InternalSpansAtLeastTwo ==
    /\ \A sp \in SplitSpans(rootNode_, begin_, end_) :
          /\ sp[2] - sp[1] >= 2
          /\ sp[1] < Mid(sp[1], sp[2]) /\ Mid(sp[1], sp[2]) < sp[2]
    /\ Depth(rootNode_) <= CeilLog2(end_ - begin_)


\* Number of internal nodes of a subtree, counted from its shape alone.
RECURSIVE InternalNodes(_)
InternalNodes(n) ==
    IF isLeaf(n)
    THEN 0
    ELSE 1 + InternalNodes(getLeft(n)) + InternalNodes(getRight(n))

\* C25: the pairs obtained from the allocator and not yet returned are as many
\* as the internal nodes of the tree.  A new tree has neither, and every call
\* changes the number of internal nodes by exactly the pairs it allocated less
\* the pairs it deallocated: one pair per initChildren, one pair per internal
\* node of a subtree collapsed by setValue, nothing released twice or leaked.
C25_PairsMatchInternalNodes ==
    [][/\ rootNode_' # rootNode_ =>
              InternalNodes(rootNode_') =
                  InternalNodes(rootNode_) + stats'.allocs - stats'.frees
       /\ rootNode_' = rootNode_ /\ call' # call =>
              stats'.allocs = stats'.frees]_vars

\* A set has collapsed a subtree of at least two internal nodes, whose pairs
\* earlier calls had allocated.
C25_Witness ==
    /\ call.op = "set"
    /\ outcome = "ok"
    /\ stats.frees >= 2
    /\ InternalNodes(rootNode_) = 0

\* C24: initChildren gives the strong guarantee.  When it fails at the pair
\* allocation, at the copy of the value into the left child or at the
\* construction of the right child's value, the node is a leaf again that
\* holds the value it held before the call, the rest of the tree is as it
\* was, and the pair, if it was allocated, has been deallocated.
C24_InitChildrenStrongGuarantee ==
    [][(call'.op = "initChildren" /\ outcome' = "throw") =>
           /\ isLeaf(NodeAt(rootNode_', call'.path))
           /\ getValue(NodeAt(rootNode_', call'.path)) = getValue(NodeAt(rootNode_, call'.path))
           /\ rootNode_' = rootNode_
           /\ stats'.allocs = stats'.frees]_vars

\* C26: when the update operator fails while a pending update is sifted, in
\* the application to the left child or to the right child, the slot of the
\* sifted node is still nonempty as the failure propagates; after a sift that
\* succeeds the slot is empty and both children have been updated.
C26_FailedSiftKeepsSlot ==
    [][call'.op = "siftOptUpdate" =>
           LET before == NodeAt(rootNode_, call'.path)
               after == NodeAt(rootNode_', call'.path)
           IN  /\ outcome' = "throw" =>
                      /\ slotOf(cfg.op, after) # <<>>
                      /\ slotOf(cfg.op, after) = slotOf(cfg.op, before)
               /\ (outcome' = "ok" /\ slotOf(cfg.op, before) # <<>>) =>
                      /\ slotOf(cfg.op, after) = <<>>
                      /\ \A i \in {1, 2} :
                             after.ptr[i] =
                                 updateThrowing(cfg.op, before.ptr[i],
                                                slotOf(cfg.op, before)[1],
                                                MaxApplied).node]_vars

\* A sift has failed in the application to the right child, after the left
\* child was updated.
C26_Witness ==
    /\ call.op = "siftOptUpdate"
    /\ outcome = "throw"
    /\ stats.applied >= 1
    /\ slotOf(cfg.op, NodeAt(rootNode_, call.path)) # <<>>

\* C27: update(arg) on an internal node whose slot holds a pending argument p
\* first applies p to both children, each pushing its own pending argument
\* down first, and only then stores arg.  Afterwards the slot is exactly arg,
\* and every position below the node stands for the operator applied to what
\* it stood for before: updates take effect in call order, also for an
\* operator whose applications do not commute.
C27_UpdatePushesOldPendingFirst ==
    [][(call'.op = "update" /\ outcome' = "ok") =>
           LET before == NodeAt(rootNode_, call'.path)
               after == NodeAt(rootNode_', call'.path)
           IN  /\ (~isLeaf(before) /\ slotOf(cfg.op, before) # <<>>) =>
                      /\ slotOf(cfg.op, after) =
                             (IF cfg.op = "negate" THEN <<0>> ELSE <<call'.x>>)
                      /\ \A i \in {1, 2} :
                             /\ after.ptr[i] =
                                    updateThrowing(cfg.op, before.ptr[i],
                                                   slotOf(cfg.op, before)[1],
                                                   MaxApplied).node
                             /\ ~isLeaf(before.ptr[i]) =>
                                    slotOf(cfg.op, after.ptr[i]) =
                                        slotOf(cfg.op, before)
               /\ \A pos \in Positions :
                      NodeValueAt(cfg.op, after, pos) =
                          ApplyOp(cfg.op, NodeValueAt(cfg.op, before, pos), call'.x)]_vars

\* An update with the reflection operator has reached a node with a pending
\* argument whose left child was internal with a pending argument of its own:
\* three applications at the leaves, and the child now holds the argument the
\* node held, which differs from the new one.
C27_Witness ==
    /\ call.op = "update"
    /\ call.path = <<>>
    /\ outcome = "ok"
    /\ cfg.op = "reflect"
    /\ stats.applied = 3
    /\ ~isLeaf(rootNode_)
    /\ ~isLeaf(getLeft(rootNode_))
    /\ getLeft(rootNode_).updateValue_ # <<>>
    /\ getLeft(rootNode_).updateValue_ # rootNode_.updateValue_
============================================================================
